---- MODULE Spec2Model ----
(***************************************************************************)
(* figma-to-rag: the process stage of cli.py (batches with retry around    *)
(* OpenAIProcessor.batch_process), the tree extractor, the document        *)
(* converter and the file pipeline of converter.py.                        *)
(***************************************************************************)
EXTENDS Integers, Sequences, FiniteSets, TLC

(***************************************************************************)
(* Bounds of the model.                                                    *)
(***************************************************************************)
MaxElems == 3
MaxBatch == 3
MaxRetry == 3
MaxNodes == 4
MaxDocNodes == 3
MaxDocs == 2
MaxRuns == 2
MaxCliNodes == 1

(***************************************************************************)
(* State.                                                                  *)
(***************************************************************************)
\* The tree extractor called on its own.
VARIABLES
    tree,             \* the node handed to extract_text_content
    tree_before,      \* the same tree as the caller built it
    extracted         \* its return value, or NotCalled

extVars == <<tree, tree_before, extracted>>

\* The document converter called on its own.
VARIABLES
    element,          \* the mapping handed to convert_to_rag_format
    converted         \* what the call did: a record or an error, or NotCalled

convVars == <<element, converted>>

\* The file pipeline: process_file and save_to_jsonl of one converter object.
VARIABLES
    call,                 \* the method the caller invokes
    remote,               \* what the design-tool API answers for the file key
    save_arg,             \* converter.py:160  documents handed to a direct save_to_jsonl
    fs_file,              \* the file at output_path
    fpc,                  \* position in the call
    requests_made,        \* converter.py:24  calls of requests.get in this call
    file_content,         \* converter.py:136
    elements,             \* converter.py:142
    converted_documents,  \* converter.py:128
    outcome,              \* what the call returned or raised
    history               \* one record per finished call: its outcome and the file

pipeVars == <<call, remote, save_arg, fs_file, fpc, requests_made, file_content, elements,
              converted_documents, outcome, history>>

\* The process stage of cli.py.
VARIABLES
    input_elements,   \* cli.py:345  elements read from the input file
    batch_size,       \* cli.py:309  --batch-size
    retry_attempts,   \* cli.py:315  --retry
    ppc,              \* position in cli.process
    i,                \* cli.py:365  offset of the current batch
    batch,            \* cli.py:366  the current batch
    batches,          \* every batch the outer loop formed so far (cli.py:366)
    attempt,          \* cli.py:368  index of the current attempt
    documents,        \* cli.py:362
    failed_elements,  \* cli.py:363
    attempt_log,      \* one record per call of batch_process (cli.py:370)
    output_file,      \* cli.py:385  lines of processed_<stem>.jsonl, or NoFile
    failed_file       \* cli.py:390  lines of failed_<stem>.jsonl, or NoFile

procVars == <<input_elements, batch_size, retry_attempts, ppc, i, batch, batches, attempt,
              documents, failed_elements, attempt_log, output_file, failed_file>>

\* The convert command of cli.py around process_file.
VARIABLES
    argv,             \* cli.py:208  the --access-token option as given, if given
    environ,          \* the process environment: FIGMA_ACCESS_TOKEN, if set
    cpc,              \* position in cli.convert
    token,            \* cli.py:231  what validate_token returned
    output_dirs,      \* whether output_dir with logs/ and data/ exists
    started,          \* the output file and directories as the command found them
    exit_code         \* the exit status, once the command has ended

cliVars == <<argv, environ, cpc, token, output_dirs, started, exit_code>>

vars == <<extVars, convVars, pipeVars, procVars, cliVars>>

NotCalled == "not called"
NoFile == "absent"

\* The state of a component that is not running.
ExtractIdle == tree = NotCalled /\ tree_before = NotCalled /\ extracted = NotCalled

\* The converter's result before the call returns.
Pending == [pending |-> TRUE]

Returned(r) == "pending" \notin DOMAIN r

ConvertIdle == element = Pending /\ converted = Pending

NoResponse == [kind |-> "none"]

PipelineIdle ==
    /\ call = "none"
    /\ remote = NoResponse
    /\ save_arg = <<>>
    /\ fs_file = [exists |-> FALSE, text |-> <<>>]
    /\ fpc = "idle"
    /\ requests_made = 0
    /\ file_content = [k \in {} |-> <<>>]
    /\ elements = <<>>
    /\ converted_documents = <<>>
    /\ outcome = Pending
    /\ history = <<>>

ProcessIdle ==
    /\ input_elements = <<>>
    /\ batch_size = 1
    /\ retry_attempts = 0
    /\ ppc = "idle"
    /\ i = 0
    /\ batch = <<>>
    /\ batches = <<>>
    /\ attempt = 0
    /\ documents = <<>>
    /\ failed_elements = <<>>
    /\ attempt_log = <<>>
    /\ output_file = NoFile
    /\ failed_file = NoFile

NotExited == [exited |-> FALSE]

CliIdle ==
    /\ argv = <<>>
    /\ environ = <<>>
    /\ cpc = "idle"
    /\ token = Pending
    /\ output_dirs = FALSE
    /\ started = Pending
    /\ exit_code = NotExited

Min(a, b) == IF a < b THEN a ELSE b

\* Python's s[lo:hi] for 0 <= lo, on a 1-based sequence.
Slice_dropLast(s, lo, hi) == SubSeq(s, lo + 1, Min(hi, Len(s)) - 1)

Slice(s, lo, hi) == SubSeq(s, lo + 1, Min(hi, Len(s)))

RECURSIVE Flatten(_)
Flatten(ss) == IF ss = <<>> THEN <<>> ELSE Head(ss) \o Flatten(Tail(ss))

Range(s) == {s[k] : k \in 1..Len(s)}

(***************************************************************************)
(* Strings are sequences of characters; mappings are functions whose       *)
(* DOMAIN is the set of keys present.                                      *)
(***************************************************************************)
EmptyStr == <<>>

\* dict.get(key, default)
Get(m, key, default) == IF key \in DOMAIN m THEN m[key] ELSE default

\* Python truthiness of a string or None: m.get(key) used as a condition.
Truthy(m, key) == key \in DOMAIN m /\ m[key] # EmptyStr

\* sep.join(parts)
RECURSIVE Join(_, _)
Join(parts, sep) ==
    IF parts = <<>> THEN EmptyStr
    ELSE IF Len(parts) = 1 THEN parts[1]
    ELSE parts[1] \o sep \o Join(Tail(parts), sep)

(***************************************************************************)
(* The tree extractor: FigmaRAGConverter.extract_text_content.             *)
(* A tree is [n, par, node]: nodes 1..n numbered level by level, par[k]    *)
(* the parent of k (0 for the root 1), the children of a node in           *)
(* increasing number, node[k] the mapping of node k without "children".    *)
(***************************************************************************)
\* The fields of a node the extractor reads besides id and children: a text node,
\* named containers, containers with an empty and with no name, and nodes of
\* another type.
NodeKinds ==
    {[type |-> "TEXT", name |-> <<"a">>],
     [type |-> "FRAME", name |-> <<"a">>],
     [type |-> "SECTION", name |-> <<"a">>],
     [type |-> "GROUP", name |-> EmptyStr],
     [type |-> "FRAME"],
     [type |-> "CANVAS", name |-> <<"a">>],
     [type |-> "CANVAS", name |-> EmptyStr]}

Shapes(n) ==
    {p \in [1..n -> 0..(n - 1)] :
        /\ p[1] = 0
        /\ \A k \in 2..n : p[k] \in 1..(k - 1)
        /\ \A k \in 3..n : p[k - 1] <= p[k]}

\* The id field of node k.
IdOf(k) == <<ToString(k)>>

\* The tree of shape p whose node k has the fields f[k] and the id of k.
MkTree(n, p, f) == [n |-> n, par |-> p, node |-> [k \in 1..n |-> f[k] @@ [id |-> IdOf(k)]]]

\* node.get("children", []) of node k, in order.
RECURSIVE ChildrenFrom(_, _, _)
ChildrenFrom(t, k, j) ==
    IF j > t.n THEN <<>>
    ELSE (IF t.par[j] = k THEN <<j>> ELSE <<>>) \o ChildrenFrom(t, k, j + 1)

Children_noneUnderText(t, k) ==
    IF Get(t.node[k], "type", "None") = "TEXT" THEN <<>> ELSE ChildrenFrom(t, k, k + 1)

Children(t, k) == ChildrenFrom(t, k, k + 1)

ContainerTypes == {"FRAME", "GROUP", "SECTION"}

\* converter.py:50-81: the element the node itself yields, if any.
OwnElements_unnamedToo(nd, path) ==
    IF Get(nd, "type", "None") \in {"TEXT", "FRAME", "GROUP", "SECTION"}
    THEN <<[type     |-> IF nd.type = "TEXT" THEN <<"text">> ELSE <<"frame">>,
            path     |-> path,
            name     |-> Get(nd, "name", EmptyStr),
            metadata |-> [id |-> Get(nd, "id", EmptyStr), path |-> path]]>>
    ELSE <<>>

OwnElements(nd, path) ==
    IF Get(nd, "type", "None") = "TEXT"
    THEN <<[type     |-> <<"text">>,
            content  |-> Get(nd, "characters", EmptyStr),
            style    |-> Get(nd, "style", "{}"),
            path     |-> path,
            name     |-> Get(nd, "name", EmptyStr),
            metadata |-> [id          |-> Get(nd, "id", EmptyStr),
                          path        |-> path,
                          style       |-> Get(nd, "style", "{}"),
                          constraints |-> Get(nd, "constraints", "{}")]]>>
    ELSE IF Get(nd, "type", "None") \in ContainerTypes /\ Truthy(nd, "name")
    THEN <<[type        |-> <<"frame">>,
            content     |-> <<"Frame: ">> \o nd.name,
            description |-> Get(nd, "description", EmptyStr),
            path        |-> path,
            name        |-> Get(nd, "name", EmptyStr),
            metadata    |-> [id                    |-> Get(nd, "id", EmptyStr),
                             path                  |-> path,
                             background            |-> Get(nd, "background", "[]"),
                             layoutMode            |-> Get(nd, "layoutMode", EmptyStr),
                             counterAxisSizingMode |-> Get(nd, "counterAxisSizingMode", EmptyStr)]]>>
    ELSE <<>>

\* converter.py:85: the path handed to the children.
current_path_slashAlways(path, nd) == path \o <<"/">> \o Get(nd, "name", EmptyStr)

current_path(path, nd) ==
    IF path # EmptyStr THEN path \o <<"/">> \o Get(nd, "name", EmptyStr)
    ELSE Get(nd, "name", EmptyStr)

\* converter.py:87-88: the children's elements, appended in child order.
ExtendAll(parts) == Flatten(parts)

\* converter.py:43-90
RECURSIVE extract_text_content(_, _, _)
extract_text_content(t, k, path) ==
    LET kids == Children(t, k)
        cp   == current_path(path, t.node[k])
    IN  OwnElements(t.node[k], path)
        \o ExtendAll([c \in 1..Len(kids) |-> extract_text_content(t, kids[c], cp)])

\* converter.py:43, 87-88: the nodes extract_text_content is called on, in the
\* order of the calls.
RECURSIVE Visited(_, _)
Visited(t, k) ==
    LET kids == Children(t, k)
    IN  <<k>> \o Flatten([c \in 1..Len(kids) |-> Visited(t, kids[c])])

InitExtract ==
    /\ \E n \in 1..MaxNodes : \E p \in Shapes(n) : \E f \in [1..n -> NodeKinds] :
           tree = MkTree(n, p, f)
    /\ tree_before = tree
    /\ extracted = NotCalled
    /\ ConvertIdle
    /\ PipelineIdle
    /\ ProcessIdle
    /\ CliIdle

\* extract_text_content(root, "")
Extract ==
    /\ extracted = NotCalled
    /\ extracted' = extract_text_content(tree, 1, EmptyStr)
    /\ UNCHANGED <<tree, tree_before, convVars, pipeVars, procVars, cliVars>>

NextExtract == Extract

SpecExtract == InitExtract /\ [][NextExtract]_vars


(***************************************************************************)
(* The document converter: FigmaRAGConverter.convert_to_rag_format.        *)
(* A JSON string is a sequence of characters; any other JSON value (an     *)
(* object, a list, a number) is one opaque token written as a TLA+ string. *)
(***************************************************************************)
Whitespace == {" ", "\n"}

\* str.strip()
RECURSIVE LStrip(_)
LStrip(str) ==
    IF str # <<>> /\ Head(str) \in Whitespace THEN LStrip(Tail(str)) ELSE str

RECURSIVE RStrip(_)
RStrip(str) ==
    IF str # <<>> /\ str[Len(str)] \in Whitespace
    THEN RStrip(SubSeq(str, 1, Len(str) - 1)) ELSE str

Strip(str) == RStrip(LStrip(str))

\* The characters of the strings of the model; a fixed word of the program (a kind,
\* a template literal) is written as one character.
Chars == {" ", "\n", "\"", "\\", "/", "a", "d", "h", "m", "n", "p", "q", "x",
          "1", "2", "3", "4", "5", "6", "7", "8", "9",
          "text", "frame", "image", "No description", "Frame: "}

IsJsonString(v) == v \in Seq(Chars)

\* The characters a JSON string literal escapes.
EscapeChar(c) ==
    IF c = "\"" THEN <<"\\", "\"">>
    ELSE IF c = "\\" THEN <<"\\", "\\">>
    ELSE IF c = "\n" THEN <<"\\", "n">>
    ELSE <<c>>

JsonString(str) == <<"\"">> \o Flatten([k \in 1..Len(str) |-> EscapeChar(str[k])]) \o <<"\"">>

\* An f-string field: str(value).
Str(v) == IF IsJsonString(v) THEN v ELSE <<v>>

\* A value json.dumps raises on: an object the encoder has no rule for, or a
\* value nested deeper than the encoder's recursion can follow.
Unserializable == "{{...}}"

DumpsRaises(v) == v = Unserializable

\* json.dumps(value, indent=2)
Dumps(v) == IF IsJsonString(v) THEN JsonString(v) ELSE <<v>>

\* converter.py:97-101
TextContent(el) ==
    Strip(<<"\n", "Text Content:", " ">> \o Str(el.content)
          \o <<"\n", "Location:", " ">> \o Str(el.path)
          \o <<"\n", "Style:", " ">> \o Dumps(el.style)
          \o <<"\n", " ", " ">>)

\* converter.py:103-107
FrameContent(el) ==
    Strip(<<"\n", "Frame:", " ">> \o Str(el.name)
          \o <<"\n", "Description:", " ">> \o Str(Get(el, "description", <<"No description">>))
          \o <<"\n", "Path:", " ">> \o Str(el.path)
          \o <<"\n", " ", " ">>)

\* The keys whose subscription element[key] the call evaluates (a KeyError when
\* one is absent).
KeysRead(el) ==
    {"type", "path", "name", "metadata"}
    \cup (IF "type" \in DOMAIN el /\ el.type = <<"text">> THEN {"content", "style"} ELSE {})

\* converter.py:109-117: {"type": ..., "path": ..., "name": ..., **element["metadata"]};
\* a key of the metadata mapping replaces the base key written before it.
MergeMetadata(base, extra) == extra @@ base

\* converter.py:92-119: whatever the body raises (a missing key, json.dumps) is
\* raised again as ConversionError.
convert_to_rag_format(el) ==
    IF \/ ~(KeysRead(el) \subseteq DOMAIN el)
       \/ el.type = <<"text">> /\ DumpsRaises(el.style)
    THEN [raised |-> TRUE, error |-> "ConversionError"]
    ELSE LET content == IF el.type = <<"text">> THEN TextContent(el)
                        ELSE IF el.type = <<"frame">> THEN FrameContent(el)
                        ELSE EmptyStr
         IN  [raised |-> FALSE,
              doc |-> [content  |-> content,
                       metadata |-> MergeMetadata(
                           [type |-> el.type, path |-> el.path, name |-> el.name],
                           el.metadata)]]

\* An optional key of a mapping.
Opt(key, vals) == {<<>>} \cup {key :> v : v \in vals}

NoKeys == [k \in {} |-> <<>>]

\* The element mappings handed to the converter.
ElementArgs ==
    {t @@ c @@ st @@ p @@ nm @@ d @@ md :
        t  \in Opt("type", {<<"text">>, <<"frame">>, <<"image">>}),
        c  \in Opt("content", {<<"h">>}),
        st \in Opt("style", {"{}", Unserializable}),
        p  \in Opt("path", {EmptyStr, <<"p">>}),
        nm \in Opt("name", {<<"n">>}),
        d  \in Opt("description", {<<"d">>}),
        md \in Opt("metadata", {NoKeys, [id |-> "1"], [type |-> <<"x">>],
                                [path |-> <<"q">>, name |-> <<"m">>]})}

InitConvert ==
    /\ element \in ElementArgs
    /\ converted = Pending
    /\ ExtractIdle
    /\ PipelineIdle
    /\ ProcessIdle
    /\ CliIdle

\* convert_to_rag_format(element)
Convert ==
    /\ ~Returned(converted)
    /\ converted' = convert_to_rag_format(element)
    /\ UNCHANGED <<element, extVars, pipeVars, procVars, cliVars>>

NextConvert == Convert

SpecConvert == InitConvert /\ [][NextConvert]_vars

(***************************************************************************)
(* Line-delimited JSON: RAGDocument.model_dump_json and save_to_jsonl, and *)
(* the reader that parses the file line by line (json.loads).              *)
(* A file's text is a sequence of characters and tokens.                   *)
(***************************************************************************)
\* The order in which a metadata mapping's keys are written.
KeyOrder == <<"type", "path", "name", "id", "style", "constraints", "background",
              "layoutMode", "counterAxisSizingMode">>

JsonValue(v) == IF IsJsonString(v) THEN JsonString(v) ELSE <<v>>

\* The members of a JSON object, from the j-th key of KeyOrder on.
RECURSIVE JsonMembers(_, _, _)
JsonMembers(m, j, first) ==
    IF j > Len(KeyOrder) THEN <<>>
    ELSE IF KeyOrder[j] \in DOMAIN m
    THEN (IF first THEN <<>> ELSE <<",">>)
         \o <<KeyOrder[j], ":">> \o JsonValue(m[KeyOrder[j]])
         \o JsonMembers(m, j + 1, FALSE)
    ELSE JsonMembers(m, j + 1, first)

JsonObject(m) == <<"{">> \o JsonMembers(m, 1, TRUE) \o <<"}">>

\* converter.py:167: doc.model_dump_json()
model_dump_json(doc) ==
    <<"{", "content", ":">> \o JsonString(doc.content)
    \o <<",", "metadata", ":">> \o JsonObject(doc.metadata) \o <<"}">>

\* converter.py:166-167: one line per document, each ended by a newline.
WriteLine_noNewline(doc) == model_dump_json(doc)

WriteLine(doc) == model_dump_json(doc) \o <<"\n">>

WriteLines(docs) == Flatten([k \in 1..Len(docs) |-> WriteLine(docs[k])])

\* open(output_path, 'w') truncates the file; with mode 'a' the old text would stay.
OpenForWrite_append(file) == IF file.exists THEN file.text ELSE <<>>

OpenForWrite(file) == <<>>

\* converter.py:158-169: io is "ok", "open_fails" (nothing is touched) or
\* "write_fails" after k documents were written.
save_to_jsonl(docs, file, io, k) ==
    IF io = "open_fails"
    THEN [file |-> file, raised |-> TRUE,
          error |-> "ConversionError", message |-> "Failed to save output"]
    ELSE IF io = "write_fails"
    THEN [file   |-> [exists |-> TRUE,
                      text   |-> OpenForWrite(file) \o WriteLines(SubSeq(docs, 1, k))],
          raised |-> TRUE, error |-> "ConversionError", message |-> "Failed to save output"]
    ELSE [file   |-> [exists |-> TRUE, text |-> OpenForWrite(file) \o WriteLines(docs)],
          raised |-> FALSE]

\* The lines of a text from position start on: for line in f (a last line
\* without newline counts).
RECURSIVE SplitFrom(_, _)
SplitFrom(text, start) ==
    IF start > Len(text) THEN <<>>
    ELSE LET nls == {q \in start..Len(text) : text[q] = "\n"}
         IN  IF nls = {} THEN <<SubSeq(text, start, Len(text))>>
             ELSE LET e == CHOOSE q \in nls : \A r \in nls : q <= r
                  IN  <<SubSeq(text, start, e - 1)>> \o SplitFrom(text, e + 1)

SplitLines(text) == SplitFrom(text, 1)

Bad == [ok |-> FALSE]

\* json.loads of a string literal starting after the opening quote at pos - 1.
RECURSIVE ScanString(_, _, _)
ScanString(ln, pos, acc) ==
    IF pos > Len(ln) THEN Bad
    ELSE IF ln[pos] = "\"" THEN [ok |-> TRUE, val |-> acc, next |-> pos + 1]
    ELSE IF ln[pos] = "\\"
    THEN IF pos + 1 > Len(ln) THEN Bad
         ELSE ScanString(ln, pos + 2,
                  Append(acc, IF ln[pos + 1] = "n" THEN "\n" ELSE ln[pos + 1]))
    ELSE ScanString(ln, pos + 1, Append(acc, ln[pos]))

ParseValue(ln, pos) ==
    IF pos > Len(ln) THEN Bad
    ELSE IF ln[pos] = "\"" THEN ScanString(ln, pos + 1, <<>>)
    ELSE [ok |-> TRUE, val |-> ln[pos], next |-> pos + 1]

\* The members of an object, after "{" or ","; ends after the closing "}".
RECURSIVE ParseMembers(_, _, _)
ParseMembers(ln, pos, acc) ==
    IF pos + 1 > Len(ln) \/ ln[pos + 1] # ":" THEN Bad
    ELSE LET v == ParseValue(ln, pos + 2)
         IN  IF ~v.ok \/ v.next > Len(ln) THEN Bad
             ELSE IF ln[v.next] = "}"
             THEN [ok |-> TRUE, val |-> (ln[pos] :> v.val) @@ acc, next |-> v.next + 1]
             ELSE IF ln[v.next] = ","
             THEN ParseMembers(ln, v.next + 1, (ln[pos] :> v.val) @@ acc)
             ELSE Bad

ParseObject(ln, pos) ==
    IF pos + 1 > Len(ln) \/ ln[pos] # "{" THEN Bad
    ELSE IF ln[pos + 1] = "}" THEN [ok |-> TRUE, val |-> NoKeys, next |-> pos + 2]
    ELSE ParseMembers(ln, pos + 1, NoKeys)

\* json.loads(line) read back as a document.
ParseDoc(ln) ==
    IF Len(ln) < 5 \/ SubSeq(ln, 1, 4) # <<"{", "content", ":", "\"">> THEN Bad
    ELSE LET c == ScanString(ln, 5, <<>>)
         IN  IF ~c.ok \/ c.next + 2 > Len(ln)
                \/ SubSeq(ln, c.next, c.next + 2) # <<",", "metadata", ":">> THEN Bad
             ELSE LET m == ParseObject(ln, c.next + 3)
                  IN  IF ~m.ok \/ m.next # Len(ln) \/ ln[m.next] # "}" THEN Bad
                      ELSE [ok |-> TRUE, doc |-> [content |-> c.val, metadata |-> m.val]]

\* The file parsed line by line.
ParseFile(text) ==
    LET lines == SplitLines(text)
    IN  [k \in 1..Len(lines) |-> ParseDoc(lines[k])]

(***************************************************************************)
(* The file pipeline: FigmaRAGConverter.process_file, and save_to_jsonl    *)
(* called directly.                                                        *)
(***************************************************************************)
\* The nodes of a fetched document: the fields the extractor copies.
DocNodeKinds ==
    {[type |-> "TEXT", name |-> <<"a">>, characters |-> <<"\"", "\n">>, style |-> "{fontSize:12}"],
     [type |-> "FRAME", name |-> <<"a">>],
     [type |-> "TEXT", name |-> <<"a">>, characters |-> <<"a">>, style |-> Unserializable],
     [type |-> "CANVAS", name |-> <<"a">>]}

\* The file at output_path before the first call.
PriorFiles ==
    {[exists |-> FALSE, text |-> <<>>],
     [exists |-> TRUE, text |-> <<"x", "\n">>]}

\* The documents handed to save_to_jsonl by a direct caller.
DocArgs ==
    {[content |-> c, metadata |-> m] :
        c \in {<<>>, <<"a">>, <<"\n", "\"">>, <<"\\", "n">>, <<"\\">>},
        m \in {NoKeys, [type |-> <<"\n">>, id |-> <<"\"">>, style |-> "{}"]}}

\* converter.py:22-31: a transport error raises FigmaAPIError; otherwise the
\* response is wrapped in FigmaAPIResponse, whose data field takes a mapping only
\* (models.py:32): the validation error of any other JSON value of a success
\* response is no RequestException and leaves the method as it is.
make_request(resp) ==
    IF resp.kind = "transport_error"
    THEN [raised |-> TRUE, error |-> "FigmaAPIError",
          message |-> "Failed to fetch data from Figma"]
    ELSE IF resp.ok /\ resp.body # "object"
    THEN [raised |-> TRUE, error |-> "ValidationError",
          message |-> "Input should be a valid dictionary"]
    ELSE [raised |-> FALSE,
          data   |-> IF resp.ok THEN resp.json ELSE NoKeys,
          error  |-> IF resp.ok THEN "None" ELSE resp.text]

\* converter.py:33-41: a non-empty error text raises; otherwise the data is returned.
get_file_content(resp) ==
    LET r == make_request(resp)
    IN  IF r.raised THEN r
        ELSE IF r.error # "None" /\ r.error # EmptyStr
        THEN [raised |-> TRUE, error |-> "FigmaAPIError", message |-> "response.text"]
        ELSE [raised |-> FALSE, data |-> r.data]

\* converter.py:145-151: the conversions that return, in order; a raising one is
\* logged and skipped.
RECURSIVE ConvertEach_stopAtFailure(_)
ConvertEach_stopAtFailure(els) ==
    IF els = <<>> THEN <<>>
    ELSE LET r == convert_to_rag_format(Head(els))
         IN  IF r.raised THEN <<>> ELSE <<r.doc>> \o ConvertEach_stopAtFailure(Tail(els))

RECURSIVE ConvertEach(_)
ConvertEach(els) ==
    IF els = <<>> THEN <<>>
    ELSE LET r == convert_to_rag_format(Head(els))
         IN  (IF r.raised THEN <<>> ELSE <<r.doc>>) \o ConvertEach(Tail(els))

Init ==
    /\ call \in {"process_file", "save_to_jsonl"}
    /\ IF call = "process_file"
       THEN /\ save_arg = <<>>
            /\ \/ remote = [kind |-> "transport_error"]
               \/ \E t \in {EmptyStr, <<"e">>} :
                     remote = [kind |-> "response", ok |-> FALSE, text |-> t]
               \/ remote = [kind |-> "response", ok |-> TRUE, body |-> "list"]
               \/ remote = [kind |-> "response", ok |-> TRUE, body |-> "object",
                             json |-> NoKeys]
               \/ \E n \in 1..MaxDocNodes : \E p \in Shapes(n) :
                  \E f \in [1..n -> DocNodeKinds] :
                     remote = [kind |-> "response", ok |-> TRUE, body |-> "object",
                               json |-> [document |-> MkTree(n, p, f)]]
       ELSE /\ remote = NoResponse
            /\ \E n \in 0..MaxDocs : save_arg \in [1..n -> DocArgs]
    /\ fs_file \in PriorFiles
    /\ fpc = "called"
    /\ requests_made = 0
    /\ file_content = NoKeys
    /\ elements = <<>>
    /\ converted_documents = <<>>
    /\ outcome = Pending
    /\ history = <<>>
    /\ ExtractIdle
    /\ ConvertIdle
    /\ ProcessIdle
    /\ CliIdle

\* The call ends, returning or raising out, with the file left as it is then.
Finish(out, file) ==
    /\ outcome' = out
    /\ history' = Append(history, [outcome |-> out, before |-> fs_file, file |-> file])
    /\ fpc' = IF out.raised THEN "raised" ELSE "returned"

\* converter.py:135-139: the one fetch and the test for a document root.
Fetch ==
    /\ fpc = "called"
    /\ call = "process_file"
    /\ requests_made' = requests_made + 1
    /\ LET r == get_file_content(remote)
       IN  IF r.raised
           THEN /\ Finish(r, fs_file)
                /\ UNCHANGED file_content
           ELSE IF "document" \notin DOMAIN r.data
           THEN /\ Finish([raised |-> TRUE, error |-> "FigmaAPIError",
                           message |-> "Invalid file content received from Figma"], fs_file)
                /\ UNCHANGED file_content
           ELSE /\ file_content' = r.data
                /\ fpc' = "fetched"
                /\ UNCHANGED <<outcome, history>>
    /\ UNCHANGED <<call, remote, save_arg, fs_file, elements, converted_documents>>
    /\ UNCHANGED <<extVars, convVars, procVars, cliVars>>

\* converter.py:141-142
ExtractElements ==
    /\ fpc = "fetched"
    /\ elements' = extract_text_content(file_content.document, 1, EmptyStr)
    /\ fpc' = "extracted"
    /\ UNCHANGED <<call, remote, save_arg, fs_file, requests_made, file_content,
                   converted_documents, outcome, history>>
    /\ UNCHANGED <<extVars, convVars, procVars, cliVars>>

\* converter.py:144-151
ConvertAll ==
    /\ fpc = "extracted"
    /\ converted_documents' = converted_documents \o ConvertEach(elements)
    /\ fpc' = "converted"
    /\ UNCHANGED <<call, remote, save_arg, fs_file, requests_made, file_content, elements,
                   outcome, history>>
    /\ UNCHANGED <<extVars, convVars, procVars, cliVars>>

\* save_to_jsonl(docs, output_path) with each way the file system can answer.
SaveDocs(docs) ==
    \E io \in {"ok", "open_fails", "write_fails"} :
    \E k \in 0..Len(docs) :
        /\ io = "write_fails" => k < Len(docs)
        /\ io # "write_fails" => k = 0
        /\ LET r == save_to_jsonl(docs, fs_file, io, k)
           IN  /\ fs_file' = r.file
               /\ IF r.raised
                  THEN Finish([raised |-> TRUE, error |-> r.error, message |-> r.message],
                              r.file)
                  ELSE Finish([raised |-> FALSE, value |-> docs], r.file)

\* converter.py:153-156: the documents are saved and returned.
Serialize ==
    /\ fpc = "converted"
    /\ SaveDocs(converted_documents)
    /\ UNCHANGED <<call, remote, save_arg, requests_made, file_content, elements,
                   converted_documents>>
    /\ UNCHANGED <<extVars, convVars, procVars, cliVars>>

\* converter.py:158-169: save_to_jsonl called on its own (tests/test_converter.py:72).
SaveDirect ==
    /\ fpc = "called"
    /\ call = "save_to_jsonl"
    /\ SaveDocs(save_arg)
    /\ UNCHANGED <<call, remote, save_arg, requests_made, file_content, elements,
                   converted_documents>>
    /\ UNCHANGED <<extVars, convVars, procVars, cliVars>>

\* The caller runs process_file again after it returned, with the same file key
\* and output path.
CallAgain ==
    /\ fpc = "returned"
    /\ call = "process_file"
    /\ Len(history) < MaxRuns
    /\ fpc' = "called"
    /\ requests_made' = 0
    /\ file_content' = NoKeys
    /\ elements' = <<>>
    /\ converted_documents' = <<>>
    /\ outcome' = Pending
    /\ UNCHANGED <<call, remote, save_arg, fs_file, history>>
    /\ UNCHANGED <<extVars, convVars, procVars, cliVars>>

Next ==
    \/ Fetch
    \/ ExtractElements
    \/ ConvertAll
    \/ Serialize
    \/ SaveDirect
    \/ CallAgain

Spec == Init /\ [][Next]_vars

(***************************************************************************)
(* The convert command: cli.convert resolves the access token, sets up the *)
(* output directory and runs process_file; any exception ends it with exit *)
(* code 1.                                                                 *)
(***************************************************************************)
TokenOption == "--access-token"
TokenEnvVar == "FIGMA_ACCESS_TOKEN"

\* An Optional[str]: None, or a string.
None == [none |-> TRUE]
Some(v) == [value |-> v]
IsTruthy(o) == "value" \in DOMAIN o /\ o.value # EmptyStr

\* cli.py:208-214: the option's value as the command receives it: the value given
\* on the command line, else a non-empty environment variable (envvar=), else the
\* default None.
OptionValue(av, env) ==
    IF TokenOption \in DOMAIN av THEN Some(av[TokenOption])
    ELSE IF Truthy(env, TokenEnvVar) THEN Some(env[TokenEnvVar])
    ELSE None

\* cli.py:50-68
validate_token_envFirst(tok, env_var, env) ==
    IF Truthy(env, env_var) THEN [exits |-> FALSE, value |-> env[env_var]]
    ELSE IF IsTruthy(tok) THEN [exits |-> FALSE, value |-> tok.value]
    ELSE [exits |-> TRUE, code |-> 1]

validate_token(tok, env_var, env) ==
    IF IsTruthy(tok) THEN [exits |-> FALSE, value |-> tok.value]
    ELSE IF Truthy(env, env_var) THEN [exits |-> FALSE, value |-> env[env_var]]
    ELSE [exits |-> TRUE, code |-> 1]

\* What the API answers for the file key of the command.
CliRemotes ==
    {[kind |-> "transport_error"],
     [kind |-> "response", ok |-> FALSE, text |-> <<"e">>],
     [kind |-> "response", ok |-> TRUE, body |-> "object", json |-> NoKeys]}
    \cup {[kind |-> "response", ok |-> TRUE, body |-> "object",
           json |-> [document |-> MkTree(n, p, f)]] :
             <<n, p, f>> \in UNION {{<<m, q, g>> : q \in Shapes(m), g \in [1..m -> DocNodeKinds]} :
                                       m \in 1..MaxCliNodes}}

InitCli ==
    /\ argv \in Opt(TokenOption, {EmptyStr, <<"f">>})
    /\ environ \in Opt(TokenEnvVar, {EmptyStr, <<"e">>})
    /\ cpc = "invoked"
    /\ token = Pending
    /\ fs_file \in PriorFiles
    /\ output_dirs \in {b \in BOOLEAN : fs_file.exists => b}
    /\ started = [file |-> fs_file, dirs |-> output_dirs]
    /\ exit_code = NotExited
    /\ call = "process_file"
    /\ remote \in CliRemotes
    /\ save_arg = <<>>
    /\ fpc = "waiting"
    /\ requests_made = 0
    /\ file_content = NoKeys
    /\ elements = <<>>
    /\ converted_documents = <<>>
    /\ outcome = Pending
    /\ history = <<>>
    /\ ExtractIdle
    /\ ConvertIdle
    /\ ProcessIdle

\* cli.py:274-281: an exception raised in the body, ctx.exit's Exit too, is caught
\* and the command ends with typer.Exit(1).
ExitWith(code) ==
    /\ exit_code' = [exited |-> TRUE, code |-> code]
    /\ cpc' = "exited"

\* cli.py:230-236
ValidateToken ==
    /\ cpc = "invoked"
    /\ LET r == validate_token(OptionValue(argv, environ), TokenEnvVar, environ)
       IN  IF r.exits
           THEN /\ ExitWith(1)
                /\ UNCHANGED token
           ELSE /\ token' = Some(r.value)
                /\ cpc' = "validated"
                /\ UNCHANGED exit_code
    /\ UNCHANGED <<argv, environ, output_dirs, started>>
    /\ UNCHANGED <<extVars, convVars, pipeVars, procVars>>

\* cli.py:238-239 and 41-48: the directories are made, or the failure ends the
\* command.
SetupOutputDir ==
    /\ cpc = "validated"
    /\ \/ /\ output_dirs' = TRUE
          /\ cpc' = "ready"
          /\ UNCHANGED exit_code
       \/ /\ ~output_dirs
          /\ ExitWith(1)
          /\ UNCHANGED output_dirs
    /\ UNCHANGED <<argv, environ, token, started>>
    /\ UNCHANGED <<extVars, convVars, pipeVars, procVars>>

\* cli.py:249-261: the converter is built with the token and process_file is
\* called.
RunProcessFile ==
    /\ cpc = "ready"
    /\ fpc = "waiting"
    /\ fpc' = "called"
    /\ cpc' = "running"
    /\ UNCHANGED <<call, remote, save_arg, fs_file, requests_made, file_content, elements,
                   converted_documents, outcome, history>>
    /\ UNCHANGED <<argv, environ, token, output_dirs, started, exit_code>>
    /\ UNCHANGED <<extVars, convVars, procVars>>

\* cli.py:261-281: process_file returned (exit code 0) or raised (exit code 1).
ConvertExits ==
    /\ cpc = "running"
    /\ fpc \in {"returned", "raised"}
    /\ ExitWith(IF fpc = "returned" THEN 0 ELSE 1)
    /\ UNCHANGED <<argv, environ, token, output_dirs, started>>
    /\ UNCHANGED <<extVars, convVars, pipeVars, procVars>>

NextCli ==
    \/ ValidateToken
    \/ SetupOutputDir
    \/ RunProcessFile
    \/ Fetch
    \/ ExtractElements
    \/ ConvertAll
    \/ Serialize
    \/ ConvertExits

SpecCli == InitCli /\ [][NextCli]_vars

(***************************************************************************)
(* The process stage: cli.process and OpenAIProcessor.batch_process.       *)
(***************************************************************************)
\* What the model API does with one request (openai_processor.py:50-65).
Outcomes == {"ok", "request_error", "non_json", "schema_mismatch"}

\* openai_processor.py:47-65: process_element returns the parsed element or raises
\* ValueError, on a request error, on non-JSON text and on a shape mismatch alike.
process_element(e, out) ==
    IF out = "ok" THEN [raised |-> FALSE, processed |-> e]
    ELSE [raised |-> TRUE, error |-> out]

\* openai_processor.py:67-97: the document rendered from a processed element.
create_rag_document(processed) == [source |-> processed]

\* openai_processor.py:112-122: the loop over one inner batch; a raising element is
\* appended to the local failed_elements and skipped.
process_inner_batch_abortOnFailure(elems, outs) ==
    LET bad == {j \in 1..Len(elems) : process_element(elems[j], outs[j]).raised}
        n   == IF bad = {} THEN Len(elems)
               ELSE (CHOOSE j \in bad : \A m \in bad : j <= m) - 1
    IN  [docs   |-> [j \in 1..n |-> create_rag_document(elems[j])],
         failed |-> IF bad = {} THEN <<>>
                    ELSE <<[element |-> elems[n + 1], error |-> outs[n + 1]]>>]

RECURSIVE process_inner_batch(_, _)
process_inner_batch(elems, outs) ==
    IF elems = <<>> THEN [docs |-> <<>>, failed |-> <<>>]
    ELSE LET r    == process_element(Head(elems), Head(outs))
             rest == process_inner_batch(Tail(elems), Tail(outs))
         IN  IF r.raised
             THEN [docs   |-> rest.docs,
                   failed |-> <<[element |-> Head(elems), error |-> r.error]>> \o rest.failed]
             ELSE [docs   |-> <<create_rag_document(r.processed)>> \o rest.docs,
                   failed |-> rest.failed]

\* openai_processor.py:108-124: batch_process from offset k on; outs[j] is the
\* outcome of the request for elems[j].
RECURSIVE batch_process_from(_, _, _, _)
batch_process_from(elems, bs, outs, k) ==
    IF k >= Len(elems) THEN [docs |-> <<>>, failed |-> <<>>]
    ELSE LET r    == process_inner_batch(Slice(elems, k, k + bs), Slice(outs, k, k + bs))
             rest == batch_process_from(elems, bs, outs, k + bs)
         IN  [docs |-> r.docs \o rest.docs, failed |-> r.failed \o rest.failed]

\* openai_processor.py:126 returns processed_documents alone: the failed_elements
\* it collected (line 106, 118) are local and are dropped on return.
batch_process_extendPerElement(elems, bs, outs) ==
    LET docs == batch_process_from(elems, bs, outs, 0).docs
    IN  Flatten([j \in 1..Len(docs) |-> SubSeq(docs, 1, j)])

batch_process_reversed(elems, bs, outs) ==
    LET docs == batch_process_from(elems, bs, outs, 0).docs
    IN  [j \in 1..Len(docs) |-> docs[Len(docs) + 1 - j]]

batch_process(elems, bs, outs) == batch_process_from(elems, bs, outs, 0).docs

\* openai_processor.py:106, 118-121: the local failed_elements list as it stands when
\* the call returns.
batch_process_failed(elems, bs, outs) == batch_process_from(elems, bs, outs, 0).failed

\* cli.py:365-366: the batches the outer loop forms, from offset k on.
RECURSIVE BatchesFrom(_, _, _)
BatchesFrom(elems, bs, k) ==
    IF k >= Len(elems) THEN <<>>
    ELSE <<Slice(elems, k, k + bs)>> \o BatchesFrom(elems, bs, k + bs)

\* cli.py:70-77 save_jsonl: one line per document.
save_jsonl(docs) == docs

\* cli.py:344-345: the k-th line of the input file, parsed: a JSON object.
RawElement(k) == [content |-> IdOf(k)]

\* cli.py:368 range(retry_attempts): the attempt indices the retry loop runs
\* through; none for a count of zero or less.
RetryRange_atLeastOnce(r) == 0..(IF r >= 1 THEN r - 1 ELSE 0)

RetryRange(r) == 0..(r - 1)

\* cli.py:315-320: --retry takes any integer.
InitProcess ==
    /\ \E n \in 0..MaxElems : input_elements = [k \in 1..n |-> RawElement(k)]
    /\ batch_size \in 1..MaxBatch
    /\ retry_attempts \in (-1)..MaxRetry
    /\ ppc = "batch"
    /\ i = 0
    /\ batch = <<>>
    /\ batches = <<>>
    /\ attempt = 0
    /\ documents = <<>>
    /\ failed_elements = <<>>
    /\ attempt_log = <<>>
    /\ output_file = NoFile
    /\ failed_file = NoFile
    /\ ExtractIdle
    /\ ConvertIdle
    /\ PipelineIdle
    /\ CliIdle

\* cli.py:365-368: the outer loop takes the next batch and enters the retry loop.
NextBatch ==
    /\ ppc = "batch"
    /\ i < Len(input_elements)
    /\ RetryRange(retry_attempts) # {}
    /\ batch' = Slice(input_elements, i, i + batch_size)
    /\ batches' = Append(batches, batch')
    /\ attempt' = 0
    /\ ppc' = "attempt"
    /\ UNCHANGED <<extVars, convVars, pipeVars, cliVars, input_elements, batch_size, retry_attempts, i, documents,
                   failed_elements, attempt_log, output_file, failed_file>>

\* cli.py:365-368 with range(retry_attempts) empty: the batch is formed and the
\* outer loop moves on without any call.
SkipBatch ==
    /\ ppc = "batch"
    /\ i < Len(input_elements)
    /\ RetryRange(retry_attempts) = {}
    /\ batch' = Slice(input_elements, i, i + batch_size)
    /\ batches' = Append(batches, batch')
    /\ i' = i + batch_size
    /\ UNCHANGED <<extVars, convVars, pipeVars, cliVars, input_elements, batch_size, retry_attempts, ppc, attempt, documents,
                   failed_elements, attempt_log, output_file, failed_file>>

\* cli.py:369-375: batch_process returns; its documents are appended and the retry
\* loop is left.
AttemptReturns ==
    /\ ppc = "attempt"
    /\ \E outs \in [1..Len(batch) -> Outcomes] :
        /\ documents' = documents \o batch_process(batch, batch_size, outs)
        /\ attempt_log' = Append(attempt_log,
               [start |-> i, batch |-> batch, attempt |-> attempt,
                threw |-> FALSE, outcomes |-> outs,
                result |-> batch_process(batch, batch_size, outs),
                recorded |-> batch_process_failed(batch, batch_size, outs)])
    /\ i' = i + batch_size
    /\ ppc' = "batch"
    /\ UNCHANGED <<extVars, convVars, pipeVars, cliVars, input_elements, batch_size, retry_attempts, batch, batches, attempt,
                   failed_elements, output_file, failed_file>>

\* cli.py:377: the test for the last pass of range(retry_attempts).
IsLastAttempt_oneMore(a, r) == a = r

IsLastAttempt(a, r) == a = r - 1

\* cli.py:376-382: the call itself raises (asyncio.run or batch_process outside the
\* per-element try); on the last attempt the batch goes to failed_elements.
AttemptThrows ==
    /\ ppc = "attempt"
    /\ attempt_log' = Append(attempt_log,
           [start |-> i, batch |-> batch, attempt |-> attempt,
            threw |-> TRUE, outcomes |-> <<>>, result |-> <<>>, recorded |-> <<>>])
    /\ IF IsLastAttempt(attempt, retry_attempts)
       THEN /\ failed_elements' = failed_elements \o batch
            /\ i' = i + batch_size
            /\ ppc' = "batch"
            /\ UNCHANGED attempt
       ELSE /\ attempt' = attempt + 1
            /\ UNCHANGED <<failed_elements, i, ppc>>
    /\ UNCHANGED <<extVars, convVars, pipeVars, cliVars, input_elements, batch_size, retry_attempts, batch, batches, documents,
                   output_file, failed_file>>

\* cli.py:384-391: after the loop the documents are saved, and the failed elements
\* when there are any.
SaveResults ==
    /\ ppc = "batch"
    /\ i >= Len(input_elements)
    /\ output_file' = save_jsonl(documents)
    /\ failed_file' = IF failed_elements # <<>> THEN save_jsonl(failed_elements)
                      ELSE failed_file
    /\ ppc' = "done"
    /\ UNCHANGED <<extVars, convVars, pipeVars, cliVars, input_elements, batch_size, retry_attempts, i, batch, batches, attempt,
                   documents, failed_elements, attempt_log>>

NextProcess ==
    \/ NextBatch
    \/ SkipBatch
    \/ AttemptReturns
    \/ AttemptThrows
    \/ SaveResults

SpecProcess == InitProcess /\ [][NextProcess]_vars

(***************************************************************************)
(* Claims about the tree extractor.                                        *)
(***************************************************************************)
\* The proper ancestors of node k, root first.
RECURSIVE Ancestors(_, _)
Ancestors(t, k) ==
    IF t.par[k] = 0 THEN <<>> ELSE Append(Ancestors(t, t.par[k]), t.par[k])

AncestorNames(t, k) ==
    LET a == Ancestors(t, k)
    IN  [j \in 1..Len(a) |-> Get(t.node[a[j]], "name", EmptyStr)]

RECURSIVE DropLeadingEmpty(_)
DropLeadingEmpty(parts) ==
    IF parts # <<>> /\ Head(parts) = EmptyStr THEN DropLeadingEmpty(Tail(parts))
    ELSE parts

\* The node of t an element was made from.
SourceOf(t, el) == CHOOSE k \in 1..t.n : t.node[k].id = el.metadata.id

\* u comes before v in the pre-order of t: u is a proper ancestor of v, or below
\* their lowest common ancestor u lies under an earlier child than v.
PreBefore(t, u, v) ==
    LET au == Range(Ancestors(t, u)) \cup {u}
        av == Range(Ancestors(t, v)) \cup {v}
    IN  /\ u # v
        /\ \/ u \in av
           \/ \E cu \in au, cv \in av :
                 /\ cu # cv
                 /\ t.par[cu] = t.par[cv]
                 /\ cu < cv

PreOrdered(t, els) ==
    \A p, q \in 1..Len(els) : p < q => PreBefore(t, SourceOf(t, els[p]), SourceOf(t, els[q]))

\* C1 as stated: the elements come in pre-order and every element's path is the
\* names of all its ancestors, root first, joined by "/", also when an ancestor
\* has an empty or missing name.
C1_PathIsJoinOfAllAncestors ==
    extracted # NotCalled =>
        /\ PreOrdered(tree, extracted)
        /\ \A p \in 1..Len(extracted) :
              extracted[p].path = Join(AncestorNames(tree, SourceOf(tree, extracted[p])), <<"/">>)

\* C1 amended: the elements come in pre-order and every element's path is the
\* names of its ancestors, root first, without the leading run of empty or
\* missing names, joined by "/".
C1_PreOrderAndPath ==
    extracted # NotCalled =>
        /\ PreOrdered(tree, extracted)
        /\ \A p \in 1..Len(extracted) :
              /\ extracted[p].path =
                     Join(DropLeadingEmpty(AncestorNames(tree, SourceOf(tree, extracted[p]))), <<"/">>)
              /\ extracted[p].metadata.path = extracted[p].path

\* C1 witness: a tree whose pre-order differs from its level order, with an
\* element below an unnamed root and a named parent.
C1_Witness ==
    /\ extracted # NotCalled
    /\ Len(extracted) >= 3
    /\ \E p \in 1..(Len(extracted) - 1) : SourceOf(tree, extracted[p]) > SourceOf(tree, extracted[p + 1])
    /\ \E p \in 1..Len(extracted) :
          LET names == AncestorNames(tree, SourceOf(tree, extracted[p]))
          IN  Len(names) >= 2 /\ names[1] = EmptyStr /\ names[2] # EmptyStr

\* The nodes the claim says yield an element: a TEXT node, and a FRAME, GROUP or
\* SECTION node with a non-empty name.
Emits(nd) ==
    \/ Get(nd, "type", "None") = "TEXT"
    \/ /\ Get(nd, "type", "None") \in {"FRAME", "GROUP", "SECTION"}
       /\ Get(nd, "name", EmptyStr) # EmptyStr

\* The elements made from node k of the extracted tree.
ElementsOf(k) == {p \in 1..Len(extracted) : extracted[p].metadata.id = IdOf(k)}

\* The path ends with the name nm as its last segment.
EndsWithName(path, nm) ==
    \/ path = nm
    \/ /\ Len(path) >= Len(nm) + 1
       /\ SubSeq(path, Len(path) - Len(nm), Len(path)) = <<"/">> \o nm

\* C19: extract_text_content yields exactly one element per TEXT node and per
\* FRAME/GROUP/SECTION node with a non-empty name, of kind text and frame, and
\* none for any other node; a node that yields nothing still has its children
\* traversed, so every such descendant has its element, and its own name, empty
\* or not, is the last segment of its children's path.
C19_OneElementPerTextOrNamedContainer ==
    extracted # NotCalled =>
        /\ \A k \in 1..tree.n :
              Cardinality(ElementsOf(k)) = IF Emits(tree.node[k]) THEN 1 ELSE 0
        /\ \A p \in 1..Len(extracted) :
              LET k == SourceOf(tree, extracted[p])
              IN  /\ extracted[p].type =
                         IF tree.node[k].type = "TEXT" THEN <<"text">> ELSE <<"frame">>
                  /\ IF tree.par[k] = 0 THEN extracted[p].path = EmptyStr
                     ELSE EndsWithName(extracted[p].path,
                                       Get(tree.node[tree.par[k]], "name", EmptyStr))

\* C19 witness: a tree of which some nodes yield nothing, with an element below a
\* named node of another type, an element below a container without a non-empty
\* name, and a frame element made from a SECTION node.
C19_Witness ==
    /\ extracted # NotCalled
    /\ Len(extracted) < tree.n
    /\ \E p \in 1..Len(extracted) :
          LET k == SourceOf(tree, extracted[p])
          IN  /\ tree.par[k] # 0
              /\ tree.node[tree.par[k]] = [type |-> "CANVAS", name |-> <<"a">>, id |-> IdOf(tree.par[k])]
    /\ \E p \in 1..Len(extracted) :
          \E a \in Range(Ancestors(tree, SourceOf(tree, extracted[p]))) :
              /\ tree.node[a].type \in {"FRAME", "GROUP"}
              /\ ~Emits(tree.node[a])
    /\ \E p \in 1..Len(extracted) :
          tree.node[SourceOf(tree, extracted[p])].type = "SECTION"

\* The text nodes and the containers with a non-empty name of a tree.
TextNodes(t) == {k \in 1..t.n : t.node[k].type = "TEXT"}

NamedContainers(t) ==
    {k \in 1..t.n : /\ t.node[k].type \in {"FRAME", "GROUP", "SECTION"}
                    /\ Get(t.node[k], "name", EmptyStr) # EmptyStr}

\* The call returned for the tree, having been made on every node exactly once,
\* with as many elements as there are text nodes and named containers.
VisitedAllOnce ==
    LET v == Visited(tree, 1)
    IN  /\ Len(v) = tree.n
        /\ Range(v) = 1..tree.n
        /\ Len(extracted) = Cardinality(TextNodes(tree)) + Cardinality(NamedContainers(tree))

\* C20: on a finite tree extract_text_content returns (before the call, the call
\* has a value, a sequence of at most one element per node), having visited every
\* node reachable from the root exactly once, the children of TEXT nodes too, so
\* that the number of elements is the number of TEXT nodes plus the number of
\* named containers; and the tree is left as it was.
C20_VisitsEveryNodeOnce ==
    /\ extracted = NotCalled => Len(extract_text_content(tree, 1, EmptyStr)) <= tree.n
    /\ extracted # NotCalled => VisitedAllOnce
    /\ tree = tree_before

\* C20 witness: the call returned for a tree in which a TEXT node has a child
\* that yields an element, and a node that yields nothing has one too.
C20_Witness ==
    /\ extracted # NotCalled
    /\ tree.n >= 4
    /\ \E k \in 2..tree.n :
          /\ tree.node[tree.par[k]].type = "TEXT"
          /\ ElementsOf(k) # {}
    /\ \E k \in 2..tree.n :
          /\ ~Emits(tree.node[tree.par[k]])
          /\ ElementsOf(k) # {}

(***************************************************************************)
(* Claims about the document converter.                                    *)
(***************************************************************************)
\* C5: whenever convert_to_rag_format returns a record, for any element mapping,
\* the record's content is a non-empty string.
C5_ContentNeverEmpty ==
    (Returned(converted) /\ ~converted.raised) => converted.doc.content # EmptyStr

\* The fields the claim calls required: type, path, name, metadata, and content
\* and style for a text element.
RequiredFields(el) ==
    {"type", "path", "name", "metadata"}
    \cup (IF Get(el, "type", EmptyStr) = <<"text">> THEN {"content", "style"} ELSE {})

\* C6: convert_to_rag_format raises ConversionError, and returns no record, when
\* the element's kind is neither text nor frame and when a required field is
\* absent.
C6_FailsFastOnBadElement ==
    Returned(converted) =>
        ((\/ Get(element, "type", EmptyStr) \notin {<<"text">>, <<"frame">>}
          \/ ~(RequiredFields(element) \subseteq DOMAIN element))
            => converted.raised /\ converted.error = "ConversionError")

\* C7: in every returned record the metadata keys type, path and name carry the
\* element's own top-level values, whatever the element's metadata mapping holds
\* under those keys.
C7_BaseKeysTakePrecedence ==
    (Returned(converted) /\ ~converted.raised) =>
        /\ converted.doc.metadata.type = element.type
        /\ converted.doc.metadata.path = element.path
        /\ converted.doc.metadata.name = element.name

(***************************************************************************)
(* Claims about the file pipeline.                                         *)
(***************************************************************************)
Fetched == call = "process_file" /\ remote.kind = "response" /\ remote.ok
           /\ remote.body = "object" /\ "document" \in DOMAIN remote.json

\* The fetched root has no children and is neither a text node nor a named
\* container.
EmptyRoot ==
    /\ Fetched
    /\ LET t == remote.json.document
       IN  /\ t.n = 1
           /\ Get(t.node[1], "type", "None") # "TEXT"
           /\ ~(Get(t.node[1], "type", "None") \in ContainerTypes
                /\ Get(t.node[1], "name", EmptyStr) # EmptyStr)

\* C8: for such a root process_file returns the empty sequence and leaves an
\* existing output file of zero lines, whatever the file held before; nothing but
\* the file system refusing the write makes the call fail.
C8_EmptyTreeGivesEmptyFile ==
    EmptyRoot =>
        /\ fpc = "returned" =>
              /\ outcome.value = <<>>
              /\ fs_file = [exists |-> TRUE, text |-> <<>>]
              /\ SplitLines(fs_file.text) = <<>>
        /\ fpc = "raised" => outcome.message = "Failed to save output"
        /\ fpc \in {"extracted", "converted"} => elements = <<>>

\* C8 witness: process_file returned for such a root over a file that held a line.
C8_Witness ==
    /\ EmptyRoot
    /\ fpc = "returned"
    /\ history[Len(history)].before.text # <<>>

\* The conversions of the extracted elements that returned a record.
Successful(els) == {k \in 1..Len(els) : ~convert_to_rag_format(els[k]).raised}

\* C9: after save_to_jsonl wrote a sequence of documents, parsing the file line
\* by line yields one record per document, in order, with equal content and
\* metadata; after process_file the file has as many lines as conversions
\* succeeded and as the returned sequence has members.
C9_JsonlRoundTrip ==
    fpc = "returned" =>
        /\ ParseFile(fs_file.text) =
               [k \in 1..Len(outcome.value) |-> [ok |-> TRUE, doc |-> outcome.value[k]]]
        /\ call = "save_to_jsonl" => outcome.value = save_arg
        /\ call = "process_file" =>
              /\ Len(SplitLines(fs_file.text)) = Cardinality(Successful(elements))
              /\ Len(SplitLines(fs_file.text)) = Len(outcome.value)
              /\ outcome.value = converted_documents

\* C9 witness: process_file returned two or more documents, one of them with a
\* quote and a newline in its text, over a file that held a line.
C9_Witness ==
    /\ fpc = "returned"
    /\ call = "process_file"
    /\ Len(outcome.value) >= 2
    /\ \E k \in 1..Len(elements) : elements[k].content = <<"\"", "\n">>
    /\ history[Len(history)].before.text # <<>>

\* C10: two runs of process_file that both return, against the same remote tree
\* and output path, leave the same file contents and return the same sequence
\* (looked at each time a run returns: history only grows).
C10_RunsAgree ==
    (call = "process_file" /\ fpc = "returned") =>
        /\ \A a, b \in 1..Len(history) :
              (~history[a].outcome.raised /\ ~history[b].outcome.raised) =>
                  /\ history[a].file = history[b].file
                  /\ history[a].outcome.value = history[b].outcome.value
        /\ \A a \in 1..Len(history) :
              ~history[a].outcome.raised =>
                  history[a].file.text = WriteLines(history[a].outcome.value)

\* C10 witness: a second run returned, over the non-empty output of the first,
\* which itself had started over different contents.
C10_Witness ==
    /\ call = "process_file"
    /\ Len(history) = 2
    /\ ~history[1].outcome.raised
    /\ ~history[2].outcome.raised
    /\ history[2].before.text # <<>>
    /\ history[1].before # history[2].before

\* The fetch did not bring a document: a transport error, a non-success status
\* with any body, or a success response without a document root.
FetchFails ==
    /\ call = "process_file"
    /\ \/ remote.kind = "transport_error"
       \/ remote.kind = "response" /\ ~remote.ok
       \/ remote.kind = "response" /\ remote.ok /\ ~Fetched

\* What C12 says of a call whose fetch fails, but for the kind of the error: one
\* request and no more, no extraction or conversion, the output file as it was.
FailsAfterOneFetch ==
    /\ fpc = "raised"
    /\ requests_made = 1
    /\ Len(history) = 1
    /\ elements = <<>>
    /\ converted_documents = <<>>
    /\ fs_file = history[1].before

\* C12: process_file issues one fetch; when the fetch meets a transport error, a
\* non-success status (whatever the body, an empty one too) or a success response
\* without a document root, the call fails with FigmaAPIError, without a second
\* request, without extracting or converting, and with the output file neither
\* created nor changed.
C12_FetchFailureIsApiError ==
    /\ call = "process_file" => requests_made = (IF fpc = "called" THEN 0 ELSE 1)
    /\ (FetchFails /\ fpc # "called") =>
          /\ FailsAfterOneFetch
          /\ outcome.error = "FigmaAPIError"

\* The j-th smallest member of a set of indices.
NthOf(S, j) == CHOOSE k \in S : Cardinality({m \in S : m < k}) = j - 1

\* The records of the conversions of els that return, in the order of els.
SuccessfulDocs(els) ==
    [j \in 1..Cardinality(Successful(els)) |->
        convert_to_rag_format(els[NthOf(Successful(els), j)]).doc]

\* C11: in process_file an element whose conversion fails is skipped and the
\* others are still converted: once ConvertAll has run, converted_documents is
\* exactly the successful conversions in extraction order; the call then goes on
\* to Serialize, so that after a fetched document the only failure is the
\* save's, and a returning call writes and returns those conversions.
C11_FailedConversionIsSkipped ==
    (Fetched /\ fpc \in {"converted", "returned", "raised"}) =>
        LET docs == SuccessfulDocs(elements)
        IN  /\ converted_documents = docs
            /\ fpc = "raised" => outcome.message = "Failed to save output"
            /\ fpc = "returned" =>
                  /\ outcome.value = docs
                  /\ fs_file.text = WriteLines(docs)

\* C11 witness: process_file returned although a conversion failed, with a
\* successful conversion before the failed element and one after it.
C11_Witness ==
    /\ Fetched
    /\ fpc = "returned"
    /\ \E a, b, c \in 1..Len(elements) :
          /\ a < b /\ b < c
          /\ a \in Successful(elements)
          /\ b \notin Successful(elements)
          /\ c \in Successful(elements)
    /\ Len(outcome.value) = Len(elements) - 1

\* process_file got its document and its Serialize step met a failing open or
\* write.
SerializeFailed == Fetched /\ fpc = "raised"

\* C13: when writing the output file fails during Serialize, process_file fails
\* with FileOperationError and returns no sequence; the failure is not swallowed.
C13_WriteFailureIsFileOperationError ==
    SerializeFailed =>
        /\ outcome.raised
        /\ "value" \notin DOMAIN outcome
        /\ outcome.error = "FileOperationError"

\* The node of the fetched document a converted document was made from.
NodeOfDoc(doc) ==
    LET t == file_content.document
    IN  t.node[CHOOSE k \in 1..t.n : t.node[k].id = doc.metadata.id]

\* The text of the description line of a frame document's content.
DescriptionLine(content) ==
    LET s == CHOOSE k \in 1..Len(content) : content[k] = "Description:"
        e == CHOOSE k \in (s + 1)..Len(content) :
                 /\ content[k] = "\n"
                 /\ \A m \in (s + 1)..(k - 1) : content[m] # "\n"
    IN  SubSeq(content, s + 2, e - 1)

\* C21: in process_file, the document converted from the frame element of a
\* container node without a description field has the description line
\* "No description".
C21_DefaultDescriptionAcrossPipeline ==
    (call = "process_file" /\ fpc \in {"converted", "returned"}) =>
        \A j \in 1..Len(converted_documents) :
            LET doc == converted_documents[j]
            IN  (/\ doc.metadata.type = <<"frame">>
                 /\ "description" \notin DOMAIN NodeOfDoc(doc)) =>
                    DescriptionLine(doc.content) = <<"No description">>

(***************************************************************************)
(* Claims about the process stage.                                         *)
(***************************************************************************)
\* The logged calls of batch_process for the batch starting at offset k.
AttemptsOf(k) == {j \in 1..Len(attempt_log) : attempt_log[j].start = k}

\* Every model request of the call failed: the call raised as a whole, or each
\* per-element request ended in an error.
AllRequestsFailed(rec) ==
    rec.threw \/ \A j \in 1..Len(rec.outcomes) : rec.outcomes[j] # "ok"

DocSources == {documents[j].source : j \in 1..Len(documents)}

\* C2: with retryAttempts = 3, once processing has ended, every element of a batch
\* whose model requests failed on every attempt is in failed_elements and none of
\* them has a document in the output sequence.
C2_AllFailedBatchIsRecorded ==
    (ppc = "done" /\ retry_attempts = 3) =>
        \A rec \in Range(attempt_log) :
            (\A j \in AttemptsOf(rec.start) : AllRequestsFailed(attempt_log[j])) =>
                \A e \in Range(rec.batch) :
                    /\ e \in Range(failed_elements)
                    /\ e \notin DocSources

\* Exactly one request of the call got non-JSON text and every other one a valid
\* response.
OneNonJson(rec) ==
    /\ ~rec.threw
    /\ Cardinality({j \in 1..Len(rec.outcomes) : rec.outcomes[j] = "non_json"}) = 1
    /\ \A j \in 1..Len(rec.outcomes) : rec.outcomes[j] \in {"non_json", "ok"}

\* C3: with retryAttempts = 1, a batch in which exactly one element got non-JSON
\* text lands whole in failed_elements and yields no document.
C3_OneBadElementFailsBatch ==
    (ppc = "done" /\ retry_attempts = 1) =>
        \A rec \in Range(attempt_log) :
            OneNonJson(rec) =>
                \A e \in Range(rec.batch) :
                    /\ e \in Range(failed_elements)
                    /\ e \notin DocSources

\* C4: the batches the outer loop forms are contiguous slices of batch_size
\* elements, the last holding the remainder; concatenated in order they are the
\* input (nothing dropped, duplicated or padded), and batch_process, given the
\* same batch_size, keeps each of them as one inner batch.
C4_BatchesPartitionInput ==
    ppc = "done" =>
        LET n == Len(input_elements)
            m == Len(batches)
        IN  /\ Flatten(batches) = input_elements
            /\ m * batch_size >= n
            /\ (m - 1) * batch_size < n \/ m = 0
            /\ \A k \in 1..m :
                /\ Len(batches[k]) =
                       IF k < m THEN batch_size
                       ELSE IF n % batch_size = 0 THEN batch_size ELSE n % batch_size
                /\ batches[k] = Slice(input_elements, (k - 1) * batch_size, k * batch_size)
                /\ BatchesFrom(batches[k], batch_size, 0) = <<batches[k]>>

\* C4 witness: processing ended for an input whose length batch_size does not
\* divide, with a full batch followed by a shorter last one.
C4_Witness ==
    /\ ppc = "done"
    /\ Len(input_elements) % batch_size # 0
    /\ Len(batches) >= 2
    /\ Len(batches[Len(batches)]) < batch_size

\* The offsets of the batches the outer loop has left behind.
FinishedStarts ==
    {(k - 1) * batch_size : k \in 1..Len(batches)} \ (IF ppc = "attempt" THEN {i} ELSE {})

\* The calls of batch_process come batch after batch: the log is ordered by batch
\* offset, and a later batch is called only when the earlier one's last call
\* returned or was its retry_attempts-th. (The log only grows: each call is
\* looked at when it is the latest.)
BatchesInTurn ==
    LET b == Len(attempt_log)
    IN  \A a \in 1..(b - 1) :
            /\ attempt_log[a].start <= attempt_log[b].start
            /\ (attempt_log[a].start < attempt_log[b].start
                /\ attempt_log[a + 1].start # attempt_log[a].start) =>
                  \/ ~attempt_log[a].threw
                  \/ attempt_log[a].attempt = retry_attempts - 1

\* The calls for one batch are numbered 0, 1, ... in the order they are made, and
\* every call but the last one threw: a call follows a failed call only, and none
\* follows a call that returned.
RetryOnlyAfterFailure ==
    attempt_log # <<>> =>
        LET b       == Len(attempt_log)
            earlier == {a \in AttemptsOf(attempt_log[b].start) : a < b}
        IN  /\ attempt_log[b].attempt = Cardinality(earlier)
            /\ \A a \in earlier : attempt_log[a].threw

\* C15 as stated: every batch is attempted at least once and at most
\* retry_attempts times, a new attempt follows a failed one only, none follows a
\* successful one, and the next batch waits for the current one to succeed or to
\* use up its attempts.
C15_AttemptsWithinBounds ==
    /\ \A k \in FinishedStarts : Cardinality(AttemptsOf(k)) >= 1
    /\ \A k \in 1..Len(batches) :
           Cardinality(AttemptsOf((k - 1) * batch_size)) <= retry_attempts
    /\ RetryOnlyAfterFailure
    /\ BatchesInTurn

\* C15 amended: the same for retry_attempts >= 1; with retry_attempts <= 0 no
\* batch is attempted at all.
C15_AttemptsWithinBoundsWhenRetrying ==
    /\ retry_attempts >= 1 => \A k \in FinishedStarts : Cardinality(AttemptsOf(k)) >= 1
    /\ retry_attempts <= 0 => attempt_log = <<>>
    /\ retry_attempts >= 1 =>
           \A k \in FinishedStarts \cup {i} : Cardinality(AttemptsOf(k)) <= retry_attempts
    /\ RetryOnlyAfterFailure
    /\ BatchesInTurn

\* C15 witness: processing ended after a batch that used up its attempts, a batch
\* that returned on a retry and a batch that returned at once.
C15_Witness ==
    /\ ppc = "done"
    /\ retry_attempts >= 2
    /\ \E k \in FinishedStarts :
          /\ Cardinality(AttemptsOf(k)) = retry_attempts
          /\ \A j \in AttemptsOf(k) : attempt_log[j].threw
    /\ \E k \in FinishedStarts :
          /\ Cardinality(AttemptsOf(k)) >= 2
          /\ \E j \in AttemptsOf(k) : ~attempt_log[j].threw
    /\ \E k \in FinishedStarts : Cardinality(AttemptsOf(k)) = 1

\* The members of seq at the indices of S, in the order of seq.
Pick(seq, S) == [j \in 1..Cardinality(S) |-> seq[NthOf(S, j)]]

\* The positions of a call's batch whose request ended well.
OkAt(rec) == {j \in 1..Len(rec.outcomes) : rec.outcomes[j] = "ok"}

\* C16: in a call of batch_process that returns, an element's failure (request
\* error, non-JSON text, shape mismatch) is put on the call's failed list with its
\* error and does not end the call: every element of the batch, the ones after a
\* failure too, is either on that list or has its document in the result, the
\* documents being those of all elements whose request ended well, in order.
\* (Each call is looked at when it is the latest of the log.)
C16_ElementFailureDoesNotAbort ==
    (attempt_log # <<>> /\ ~attempt_log[Len(attempt_log)].threw) =>
        LET rec == attempt_log[Len(attempt_log)]
            ok  == OkAt(rec)
            bad == (1..Len(rec.batch)) \ ok
        IN  /\ Len(rec.outcomes) = Len(rec.batch)
            /\ rec.result = Pick([j \in 1..Len(rec.batch) |-> create_rag_document(rec.batch[j])], ok)
            /\ rec.recorded = Pick([j \in 1..Len(rec.batch) |->
                                       [element |-> rec.batch[j], error |-> rec.outcomes[j]]], bad)
            /\ Len(rec.result) + Len(rec.recorded) = Len(rec.batch)

\* C16 witness: a returned call for a batch of three, in which a failed element
\* stands between two elements that went well.
C16_Witness ==
    /\ attempt_log # <<>>
    /\ LET rec == attempt_log[Len(attempt_log)]
       IN  /\ ~rec.threw
           /\ Len(rec.batch) = 3
           /\ rec.outcomes[1] = "ok"
           /\ rec.outcomes[2] = "schema_mismatch"
           /\ rec.outcomes[3] = "ok"
           /\ Len(rec.result) = 2

\* The position in the input of the element a document was made from.
InputIndex(doc) == CHOOSE k \in 1..Len(input_elements) : input_elements[k] = doc.source

\* C17: the output documents keep the input's order: a document of an earlier
\* batch comes before a document of a later batch, and within a batch the
\* documents follow their source elements, however many attempts a batch took.
C17_OutputKeepsInputOrder ==
    \A p, q \in 1..Len(documents) :
        p < q => InputIndex(documents[p]) < InputIndex(documents[q])

\* C17 witness: processing ended with documents from two batches, two of them from
\* a batch that returned only on a retry.
C17_Witness ==
    /\ ppc = "done"
    /\ Len(documents) >= 3
    /\ \E a, b \in 1..Len(attempt_log) :
          /\ a < b
          /\ attempt_log[a].start = attempt_log[b].start
          /\ attempt_log[a].threw
          /\ Len(attempt_log[b].result) >= 2
    /\ \E a, b \in 1..Len(attempt_log) :
          /\ attempt_log[a].start # attempt_log[b].start
          /\ attempt_log[a].result # <<>>
          /\ attempt_log[b].result # <<>>

\* C18: every entry of the persisted failed-elements file pairs a failed raw
\* element with the error message of its last failed attempt; none is persisted
\* without its error message.
C18_FailedEntriesCarryError ==
    (ppc = "done" /\ failed_elements # <<>>) =>
        \A j \in 1..Len(failed_file) :
            /\ {"element", "error"} \subseteq DOMAIN failed_file[j]
            /\ failed_file[j].element \in Range(input_elements)

\* The positions of the output sequence holding a document made from element e.
DocsOf(e) == {j \in 1..Len(documents) : documents[j].source = e}

\* The positions of failed_elements holding element e.
FailedAt(e) == {j \in 1..Len(failed_elements) : failed_elements[j] = e}

\* C22: with retry_attempts >= 1, once processing has ended every input element
\* is accounted for exactly once, by one document in the output sequence or by
\* one entry of failed_elements, so that the two counts the summary reports
\* (cli.py:396-397) add up to the number of input elements.
C22_EveryElementAccountedFor ==
    (ppc = "done" /\ retry_attempts >= 1) =>
        /\ \A k \in 1..Len(input_elements) :
               Cardinality(DocsOf(input_elements[k]))
                   + Cardinality(FailedAt(input_elements[k])) = 1
        /\ Len(documents) + Len(failed_elements) = Len(input_elements)

\* C23: with retry_attempts zero or negative, batch_process is never called (no
\* model request is issued for any batch), documents and failed_elements stay
\* empty whatever the input, and when processing has ended the success file has
\* been written without a line and no failed file has been written.
C23_NoAttemptsProcessNothing ==
    retry_attempts <= 0 =>
        /\ attempt_log = <<>>
        /\ ppc # "attempt"
        /\ documents = <<>>
        /\ failed_elements = <<>>
        /\ failed_file = NoFile
        /\ ppc = "done" => Len(output_file) = 0
        /\ ppc # "done" => output_file = NoFile

\* C23 witness: processing ended for three input elements in two batches with a
\* retry count of zero, all three in no collection.
C23_Witness ==
    /\ retry_attempts = 0
    /\ ppc = "done"
    /\ Len(input_elements) = 3
    /\ Len(batches) = 2
    /\ Len(documents) + Len(failed_elements) = 0
    /\ Len(output_file) = 0

\* The documents of the logged calls that returned, call after call.
RECURSIVE ReturnedResults(_)
ReturnedResults(log) ==
    IF log = <<>> THEN <<>>
    ELSE (IF Head(log).threw THEN <<>> ELSE Head(log).result) \o ReturnedResults(Tail(log))

\* C24: the output sequence holds the documents of the calls that returned and
\* nothing of a call that threw; a batch has at most one call that returned; so,
\* whatever attempts failed and were retried, no input element has more than one
\* document in the output, and none is both in the output and in failed_elements.
C24_DocumentsFromTheReturningAttemptOnly ==
    /\ documents = ReturnedResults(attempt_log)
    /\ \A k \in 1..Len(batches) :
           Cardinality({j \in AttemptsOf((k - 1) * batch_size) : ~attempt_log[j].threw}) <= 1
    /\ \A k \in 1..Len(input_elements) :
           /\ Cardinality(DocsOf(input_elements[k])) <= 1
           /\ DocsOf(input_elements[k]) = {} \/ FailedAt(input_elements[k]) = {}

\* C24 witness: processing ended after a batch whose call threw and then, retried,
\* returned two documents, and a batch whose every call threw and which is in
\* failed_elements.
C24_Witness ==
    /\ ppc = "done"
    /\ \E a, b \in 1..Len(attempt_log) :
          /\ a < b
          /\ attempt_log[a].start = attempt_log[b].start
          /\ attempt_log[a].threw
          /\ ~attempt_log[b].threw
          /\ Len(attempt_log[b].result) = 2
    /\ failed_elements # <<>>
    /\ Len(documents) = 2

\* The outcomes of the model requests of the logged calls, call after call.
RequestOutcomes == Flatten([j \in 1..Len(attempt_log) |-> attempt_log[j].outcomes])

\* The elements the logged calls were made for, call after call.
RequestedElements == Flatten([j \in 1..Len(attempt_log) |-> attempt_log[j].batch])

ExitedWith(code) == cpc = "exited" /\ exit_code = [exited |-> TRUE, code |-> code]

\* Nothing was fetched and nothing written: no request, process_file not called,
\* the output file and the directories as the command found them.
NothingDone ==
    /\ requests_made = 0
    /\ fpc = "waiting"
    /\ fs_file = started.file
    /\ output_dirs = started.dirs

\* C14 as stated: without the flag and with the variable unset the command exits
\* with code 1 and has fetched and written nothing; with the flag and the variable
\* both present the flag's value is the token used.
C14_FlagBeforeEnvironment ==
    cpc # "invoked" =>
        /\ (TokenOption \notin DOMAIN argv /\ TokenEnvVar \notin DOMAIN environ) =>
              ExitedWith(1) /\ NothingDone
        /\ (TokenOption \in DOMAIN argv /\ TokenEnvVar \in DOMAIN environ) =>
              token = Some(argv[TokenOption])

\* C14 amended: without a non-empty flag value and without a non-empty variable
\* the command exits with code 1 and has fetched and written nothing; a non-empty
\* flag value is the token used, whatever the variable holds; an empty flag value
\* gives way to a non-empty variable.
C14_NonEmptyFlagBeforeEnvironment ==
    cpc # "invoked" =>
        /\ (~Truthy(argv, TokenOption) /\ ~Truthy(environ, TokenEnvVar)) =>
              ExitedWith(1) /\ NothingDone
        /\ Truthy(argv, TokenOption) => token = Some(argv[TokenOption])
        /\ (~Truthy(argv, TokenOption) /\ Truthy(environ, TokenEnvVar)) =>
              token = Some(environ[TokenEnvVar])

\* C14 witness: the command ran to exit code 0 with a non-empty flag value and a
\* different non-empty variable, and fetched with the flag's value.
C14_Witness ==
    /\ ExitedWith(0)
    /\ Truthy(argv, TokenOption)
    /\ Truthy(environ, TokenEnvVar)
    /\ argv[TokenOption] # environ[TokenEnvVar]
    /\ requests_made = 1
    /\ token = Some(argv[TokenOption])

====